---- MODULE Spec2Model ----
(***************************************************************************)
(* Model of figma_mcp/clean_node.py: the recursive node transformation and *)
(* the content-addressed style table of transform_figma_json.              *)
(*                                                                         *)
(* Python dicts are functions whose DOMAIN is the key set, Python lists    *)
(* are sequences, None is the value None below.  A JSON number is a record *)
(* [k |-> "int", v |-> n] (the integer n) or [k |-> "float", v |-> t] (the *)
(* float t/10), so that str() and json.dumps() of 1 and of 1.0 differ as   *)
(* they do in Python.                                                      *)
(***************************************************************************)
EXTENDS Integers, Sequences, FiniteSets, TLC

VARIABLES
    raw_data,     \* the argument of the call under way
    pc,           \* "start", "running", "done" or "error"
    stack,        \* the transform_node frames: [raw_node, node, i]
    styles,       \* the styles dictionary of transform_figma_json
    result,       \* the returned value, or the exception raised
    registered    \* history: every (style object, id) handed to the table

vars == <<raw_data, pc, stack, styles, result, registered>>

(* ------------------------------ bounds --------------------------------- *)

\* the largest number of nodes of an input tree
MaxNodes == 3

\* the largest number of entries of a fills list
MaxFills == 2

(* ------------------------- Python values ------------------------------ *)

None == "None"

EmptyDict == [x \in {} |-> x]

Has(d, k) == k \in DOMAIN d

Get(d, k, default) == IF k \in DOMAIN d THEN d[k] ELSE default

\* d[k] = v
Put(d, k, v) == (k :> v) @@ d

\* the one element of a singleton set: The({ e(x) : x \in {v} }) is e(v)
The(S) == CHOOSE x \in S : TRUE

IntNum(n) == [k |-> "int", v |-> n]

FloatNum(t) == [k |-> "float", v |-> t]

Abs(n) == IF n < 0 THEN -n ELSE n

\* str(x) of a number, as an f-string and json.dumps write it
NumStr(x) ==
    IF x.k = "int" THEN ToString(x.v)
    ELSE (IF x.v < 0 THEN "-" ELSE "") \o ToString(Abs(x.v) \div 10)
            \o "." \o ToString(Abs(x.v) % 10)

\* x > 0 on numbers
Positive(x) == x.v > 0

\* f"{x}px"
Px(x) == NumStr(x) \o "px"

\* the truthiness of a returned id: None and "" are falsy
Truthy(s) == s # None /\ s # ""

(* --------------------------- rgba_to_hex ------------------------------ *)

HexDigits == <<"0", "1", "2", "3", "4", "5", "6", "7",
               "8", "9", "a", "b", "c", "d", "e", "f">>

RECURSIVE HexStr(_)
HexStr(n) ==
    IF n < 16 THEN HexDigits[n + 1]
    ELSE HexStr(n \div 16) \o HexDigits[(n % 16) + 1]

\* f"{n:02x}"
Hex02(n) ==
    IF n < 0 THEN "-" \o (IF -n < 16 THEN "0" ELSE "") \o HexStr(-n)
    ELSE (IF n < 16 THEN "0" ELSE "") \o HexStr(n)

\* int(c * 255): the product truncated toward zero
Channel(c) ==
    IF c.k = "int" THEN c.v * 255
    ELSE IF c.v < 0 THEN -((-c.v * 255) \div 10)
    ELSE (c.v * 255) \div 10

rgba_to_hex(rgba) ==
    "#" \o Hex02(Channel(rgba["r"])) \o Hex02(Channel(rgba["g"]))
        \o Hex02(Channel(rgba["b"]))

(* ---------------------------- style_hash ------------------------------ *)

\* the keys a style object can hold, in the order sort_keys=True puts them
SortedKeys ==
    <<"alignItems", "backgroundColor", "borderRadius", "color", "display",
      "flexDirection", "fontFamily", "fontSize", "fontWeight", "gap",
      "height", "justifyContent", "letterSpacing", "lineHeight", "opacity",
      "paddingBottom", "paddingLeft", "paddingRight", "paddingTop",
      "textAlign", "width">>

\* the keys whose values are numbers; every other value is a string
NumberKeys == {"opacity", "fontWeight"}

\* json.dumps of one value
JsonValue(key, v) ==
    IF key \in NumberKeys THEN NumStr(v) ELSE "\"" \o v \o "\""

RECURSIVE JsonItems(_, _, _)
JsonItems(style_data, i, first) ==
    IF i > Len(SortedKeys) THEN ""
    ELSE IF SortedKeys[i] \in DOMAIN style_data
         THEN (IF first THEN "" ELSE ", ")
                 \o "\"" \o SortedKeys[i] \o "\": "
                 \o JsonValue(SortedKeys[i], style_data[SortedKeys[i]])
                 \o JsonItems(style_data, i + 1, FALSE)
         ELSE JsonItems(style_data, i + 1, first)

\* json.dumps(style_data, sort_keys=True)
json_dumps(style_data) == "{" \o JsonItems(style_data, 1, TRUE) \o "}"

\* hashlib.md5(...).hexdigest(): the digest, taken to be free of collisions
\* on the strings met, is written as its tagged preimage
md5_hexdigest(s) == "md5:" \o s

\* faulty variant: json.dumps(sorted(style_data)), the sorted list of the keys alone
RECURSIVE KeyItems(_, _, _)
KeyItems(style_data, i, first) ==
    IF i > Len(SortedKeys) THEN ""
    ELSE IF SortedKeys[i] \in DOMAIN style_data
         THEN (IF first THEN "" ELSE ", ") \o "\"" \o SortedKeys[i] \o "\""
                 \o KeyItems(style_data, i + 1, FALSE)
         ELSE KeyItems(style_data, i + 1, first)

style_hash_of_keys(style_data) ==
    md5_hexdigest("[" \o KeyItems(style_data, 1, TRUE) \o "]")

style_hash(style_data) == md5_hexdigest(json_dumps(style_data))

(* ------------------------- extractor results -------------------------- *)

\* a call that returned id, leaving the table as styles; built lists the
\* (style object, id) pairs the call handed to the table
Returned(id, table, built) ==
    [raised |-> FALSE, key |-> None, id |-> id, styles |-> table, built |-> built]

\* a call that ended in KeyError(key)
Raised(key, table) ==
    [raised |-> TRUE, key |-> key, id |-> None, styles |-> table, built |-> <<>>]

\* if style_id not in styles: styles[style_id] = style_data; return style_id
\* faulty variant: the membership test inverted
Insert_inverted(table, style_id, style_data) ==
    Returned(style_id,
             IF style_id \notin DOMAIN table THEN table
             ELSE Put(table, style_id, style_data),
             <<[style |-> style_data, id |-> style_id]>>)

Insert(table, style_id, style_data) ==
    Returned(style_id,
             IF style_id \in DOMAIN table THEN table
             ELSE Put(table, style_id, style_data),
             <<[style |-> style_data, id |-> style_id]>>)

\* style_id = style_hash(style_data), and the lines above
Register(style_data, table) == Insert(table, style_hash(style_data), style_data)

\* faulty variant: the emptiness test left out
RegisterAlways(style_data, table) ==
    Insert(table, style_hash(style_data), style_data)

\* if style: register it and return its id; else return None
RegisterIfAny(style_data, table) ==
    IF DOMAIN style_data # {} THEN Register(style_data, table)
    ELSE Returned(None, table, <<>>)

(* ------------------------- get_fill_style_id -------------------------- *)

\* faulty variant: a SOLID fill without color is given black, fill.get("color", ...)
get_fill_style_id_default_color(fills, table) ==
    IF Len(fills) = 0 \/ Get(fills[1], "visible", TRUE) = FALSE
    THEN Returned(None, table, <<>>)
    ELSE IF fills[1]["type"] = "SOLID"
    THEN Register(
             [backgroundColor |->
                  rgba_to_hex(Get(fills[1], "color",
                                  [r |-> IntNum(0), g |-> IntNum(0), b |-> IntNum(0)])),
              opacity |-> Get(fills[1], "opacity", IntNum(1))],
             table)
    ELSE Returned(None, table, <<>>)

\* a fill whose visible is not false
fill_shown(fill) == Get(fill, "visible", TRUE) # FALSE

\* faulty variant: the first fill that is shown is taken, not the first fill
get_fill_style_id_first_shown(fills, table) ==
    LET shown == SelectSeq(fills, fill_shown)
    IN  IF shown = <<>> THEN Returned(None, table, <<>>)
        ELSE IF shown[1]["type"] = "SOLID"
        THEN IF ~Has(shown[1], "color") THEN Raised("color", table)
             ELSE Register(
                      [backgroundColor |-> rgba_to_hex(shown[1]["color"]),
                       opacity |-> Get(shown[1], "opacity", IntNum(1))],
                      table)
        ELSE Returned(None, table, <<>>)

get_fill_style_id(fills, table) ==
    IF Len(fills) = 0 \/ Get(fills[1], "visible", TRUE) = FALSE
    THEN Returned(None, table, <<>>)
    ELSE LET fill == fills[1]
         IN  IF fill["type"] = "SOLID"
             THEN IF ~Has(fill, "color") THEN Raised("color", table)
                  ELSE Register(
                          [backgroundColor |-> rgba_to_hex(fill["color"]),
                           opacity |-> Get(fill, "opacity", IntNum(1))],
                          table)
             ELSE Returned(None, table, <<>>)

(* ------------------------ get_layout_style_id ------------------------- *)

figma_align_to_flex(figma_val) ==
    CASE figma_val = "MIN" -> "flex-start"
      [] figma_val = "CENTER" -> "center"
      [] figma_val = "MAX" -> "flex-end"
      [] figma_val = "SPACE_BETWEEN" -> "space-between"
      [] OTHER -> "flex-start"

\* if key in raw_node: layout_style[as] = f"{raw_node[key]}px"
CopyPx(style, src, key, as) ==
    IF Has(src, key) THEN Put(style, as, Px(src[key])) ELSE style

\* the block under `if "primaryAxisAlignItems" in raw_node`
layout_align(raw_node, layout_style) ==
    IF Has(raw_node, "primaryAxisAlignItems")
    THEN Put(Put(layout_style, "justifyContent",
                 figma_align_to_flex(raw_node["primaryAxisAlignItems"])),
             "alignItems",
             figma_align_to_flex(Get(raw_node, "counterAxisAlignItems", "MIN")))
    ELSE layout_style

\* faulty variant: the padding, spacing and alignment fields read without the
\* test of layoutMode
layout_mode_block_ungated(raw_node, layout_style) ==
    LET flex == IF Get(raw_node, "layoutMode", None) = "HORIZONTAL"
                THEN Put(Put(layout_style, "display", "flex"),
                         "flexDirection", "row")
                ELSE IF Get(raw_node, "layoutMode", None) = "VERTICAL"
                THEN Put(Put(layout_style, "display", "flex"),
                         "flexDirection", "column")
                ELSE layout_style
        padL == CopyPx(flex, raw_node, "paddingLeft", "paddingLeft")
        padR == CopyPx(padL, raw_node, "paddingRight", "paddingRight")
        padT == CopyPx(padR, raw_node, "paddingTop", "paddingTop")
        padB == CopyPx(padT, raw_node, "paddingBottom", "paddingBottom")
    IN  layout_align(raw_node, CopyPx(padB, raw_node, "itemSpacing", "gap"))

\* the block under `if "layoutMode" in raw_node`
layout_mode_block(raw_node, layout_style) ==
    IF ~Has(raw_node, "layoutMode") THEN layout_style
    ELSE LET layout_mode == raw_node["layoutMode"]
             flex == IF layout_mode = "HORIZONTAL"
                     THEN Put(Put(layout_style, "display", "flex"),
                              "flexDirection", "row")
                     ELSE IF layout_mode = "VERTICAL"
                     THEN Put(Put(layout_style, "display", "flex"),
                              "flexDirection", "column")
                     ELSE layout_style
             padL == CopyPx(flex, raw_node, "paddingLeft", "paddingLeft")
             padR == CopyPx(padL, raw_node, "paddingRight", "paddingRight")
             padT == CopyPx(padR, raw_node, "paddingTop", "paddingTop")
             padB == CopyPx(padT, raw_node, "paddingBottom", "paddingBottom")
         IN  layout_align(raw_node,
                          CopyPx(padB, raw_node, "itemSpacing", "gap"))

\* the block under `if "absoluteBoundingBox" in raw_node`
layout_size_block(raw_node, layout_style) ==
    IF Has(raw_node, "absoluteBoundingBox")
    THEN LET bbox == raw_node["absoluteBoundingBox"]
         IN  Put(Put(layout_style, "width", Px(bbox["width"])),
                 "height", Px(bbox["height"]))
    ELSE layout_style

get_border_radius(raw_node) ==
    IF Has(raw_node, "cornerRadius") THEN Px(raw_node["cornerRadius"]) ELSE None

\* faulty variant: >= 0 for > 0
get_corner_smoothing_ge(raw_node) ==
    IF Has(raw_node, "cornerSmoothing") /\ raw_node["cornerSmoothing"].v >= 0
    THEN Px(raw_node["cornerSmoothing"])
    ELSE None

get_corner_smoothing(raw_node) ==
    IF Has(raw_node, "cornerSmoothing") /\ Positive(raw_node["cornerSmoothing"])
    THEN Px(raw_node["cornerSmoothing"])
    ELSE None

\* faulty variant: the smoothing block nested under the radius block
layout_corner_block_nested(raw_node, layout_style) ==
    IF ~Truthy(get_border_radius(raw_node)) THEN layout_style
    ELSE IF Truthy(get_corner_smoothing(raw_node))
    THEN Put(layout_style, "borderRadius", get_corner_smoothing(raw_node))
    ELSE Put(layout_style, "borderRadius", get_border_radius(raw_node))

\* the two blocks that set borderRadius, the smoothing one last
layout_corner_block(raw_node, layout_style) ==
    LET border_radius == get_border_radius(raw_node)
        radius == IF Truthy(border_radius)
                  THEN Put(layout_style, "borderRadius", border_radius)
                  ELSE layout_style
        corner_smoothing == get_corner_smoothing(raw_node)
    IN  IF Truthy(corner_smoothing)
        THEN Put(radius, "borderRadius", corner_smoothing)
        ELSE radius

\* the style object get_layout_style_id builds
layout_style_of(raw_node) ==
    layout_corner_block(raw_node,
        layout_size_block(raw_node,
            layout_mode_block(raw_node, EmptyDict)))

get_layout_style_id(raw_node, table) ==
    RegisterIfAny(layout_style_of(raw_node), table)

(* ------------------------- get_text_style_id -------------------------- *)

\* align_map.get(value, "left") of get_text_style_id
text_align_of(value) ==
    CASE value = "LEFT" -> "left"
      [] value = "CENTER" -> "center"
      [] value = "RIGHT" -> "right"
      [] value = "JUSTIFIED" -> "justify"
      [] OTHER -> "left"

\* the text properties copied from the style sub-record
text_props(node_style) ==
    LET family == IF Has(node_style, "fontFamily")
                  THEN Put(EmptyDict, "fontFamily", node_style["fontFamily"])
                  ELSE EmptyDict
        weight == IF Has(node_style, "fontWeight")
                  THEN Put(family, "fontWeight", node_style["fontWeight"])
                  ELSE family
        size   == CopyPx(weight, node_style, "fontSize", "fontSize")
        height == CopyPx(size, node_style, "lineHeightPx", "lineHeight")
        letter == CopyPx(height, node_style, "letterSpacing", "letterSpacing")
    IN  IF Has(node_style, "textAlignHorizontal")
        THEN Put(letter, "textAlign",
                 text_align_of(node_style["textAlignHorizontal"]))
        ELSE letter

\* the node has a first fill and it is SOLID
first_fill_solid(raw_node) ==
    /\ Has(raw_node, "fills")
    /\ Len(raw_node["fills"]) > 0
    /\ raw_node["fills"][1]["type"] = "SOLID"

get_text_style_id(raw_node, table) ==
    IF raw_node["type"] # "TEXT" \/ ~Has(raw_node, "style")
    THEN Returned(None, table, <<>>)
    ELSE IF ~first_fill_solid(raw_node)
    THEN RegisterIfAny(text_props(raw_node["style"]), table)
    ELSE IF ~Has(raw_node["fills"][1], "color")
    THEN Raised("color", table)
    ELSE RegisterIfAny(
             Put(text_props(raw_node["style"]), "color",
                 rgba_to_hex(raw_node["fills"][1]["color"])),
             table)

(* --------------------------- transform_node --------------------------- *)

\* faulty variant: the loop left at the first IMAGE fill with an imageRef
RECURSIVE image_loop_break(_, _, _)
image_loop_break(node, fills, i) ==
    IF i > Len(fills) THEN node
    ELSE IF fills[i]["type"] = "IMAGE" /\ Has(fills[i], "imageRef")
         THEN Put(node, "imageRef", fills[i]["imageRef"])
         ELSE image_loop_break(node, fills, i + 1)

\* for fill in fills: if fill is an IMAGE with an imageRef, node["imageRef"]
\* is assigned; the loop runs to the end of the list
RECURSIVE image_loop(_, _, _)
image_loop(node, fills, i) ==
    IF i > Len(fills) THEN node
    ELSE IF fills[i]["type"] = "IMAGE" /\ Has(fills[i], "imageRef")
         THEN image_loop(Put(node, "imageRef", fills[i]["imageRef"]), fills, i + 1)
         ELSE image_loop(node, fills, i + 1)

\* node[key] = id, when the id is truthy
Attach(node, key, id) == IF Truthy(id) THEN Put(node, key, id) ELSE node

\* the node transform_node holds when its children loop starts, given the
\* ids the three extractors returned
build_node(raw_node, fill_style_id, layout_style_id, text_style_id) ==
    LET base == [id |-> raw_node["id"], name |-> raw_node["name"],
                 type |-> raw_node["type"],
                 visible |-> Get(raw_node, "visible", TRUE)]
        withIds == Attach(Attach(Attach(base, "fillStyleId", fill_style_id),
                                 "layoutStyleId", layout_style_id),
                          "textStyleId", text_style_id)
        withChars == IF raw_node["type"] = "TEXT" /\ Has(raw_node, "characters")
                     THEN Put(withIds, "characters", raw_node["characters"])
                     ELSE withIds
        withImage == IF raw_node["type"] = "RECTANGLE" /\ Has(raw_node, "fills")
                     THEN image_loop(withChars, raw_node["fills"], 1)
                     ELSE withChars
    IN  IF Has(raw_node, "children")
        THEN Put(withImage, "children", <<>>)
        ELSE withImage

\* transform_node from its first line to `node["children"] = []`: the node
\* built so far, the table, and the exception if one was raised.  The three
\* extractors run in the order fill, layout, text, each on the table the one
\* before it left.
transform_node_head(raw_node, table) ==
    The({ IF fill.raised
          THEN [raised |-> TRUE, key |-> fill.key, node |-> EmptyDict,
                styles |-> fill.styles, built |-> <<>>]
          ELSE The({ The({
              IF text.raised
              THEN [raised |-> TRUE, key |-> text.key, node |-> EmptyDict,
                    styles |-> text.styles, built |-> fill.built \o layout.built]
              ELSE [raised |-> FALSE, key |-> None,
                    node |-> build_node(raw_node, fill.id, layout.id, text.id),
                    styles |-> text.styles,
                    built |-> fill.built \o layout.built \o text.built]
              : text \in { get_text_style_id(raw_node, layout.styles) } })
              : layout \in { get_layout_style_id(raw_node, fill.styles) } })
          : fill \in { get_fill_style_id(Get(raw_node, "fills", <<>>), table) } })

\* the opaque fields transform_node copies after the children loop
ComponentKeys ==
    <<"componentPropertyReferences", "componentProperties",
      "componentPropertyDefinitions", "variantProperties",
      "componentSetId", "componentId">>

RECURSIVE copy_component_fields(_, _, _)
copy_component_fields(raw_node, node, i) ==
    IF i > Len(ComponentKeys) THEN node
    ELSE copy_component_fields(
             raw_node,
             IF Has(raw_node, ComponentKeys[i])
             THEN Put(node, ComponentKeys[i], raw_node[ComponentKeys[i]])
             ELSE node,
             i + 1)

\* transform_node from the end of the children loop to its return
transform_node_tail(raw_node, node) == copy_component_fields(raw_node, node, 1)

\* faulty variant: child.get("visible", False)
child_skipped_default_false(child) == Get(child, "visible", FALSE) = FALSE

\* `if child.get("visible", True) == False: continue`
child_skipped(child) == Get(child, "visible", TRUE) = FALSE

(* ------------------------------ inputs -------------------------------- *)

Red == [r |-> IntNum(1), g |-> IntNum(0), b |-> IntNum(0)]

Orange == [r |-> FloatNum(10), g |-> FloatNum(5), b |-> FloatNum(0)]

Blue == [r |-> FloatNum(0), g |-> FloatNum(0), b |-> FloatNum(10)]

SolidRed == [type |-> "SOLID", color |-> Red]

SolidRedOpaque == [type |-> "SOLID", color |-> Red, opacity |-> IntNum(1)]

SolidBlue == [type |-> "SOLID", color |-> Blue, opacity |-> FloatNum(5)]

SolidNoColor == [type |-> "SOLID"]

HiddenSolidNoColor == [type |-> "SOLID", visible |-> FALSE]

HiddenSolidRed == [type |-> "SOLID", color |-> Red, visible |-> FALSE]

SolidOrangeClear == [type |-> "SOLID", color |-> Orange, opacity |-> IntNum(0)]

ImageA == [type |-> "IMAGE", imageRef |-> "imgA"]

HiddenImageB == [type |-> "IMAGE", imageRef |-> "imgB", visible |-> FALSE]

ImageNoRef == [type |-> "IMAGE"]

Gradient == [type |-> "GRADIENT_LINEAR", visible |-> TRUE]

\* the kinds of node of the input trees: the fields of the raw node other
\* than id, name and children, and whether the node carries a children list
ContainerKinds ==
    { [type |-> "FRAME", layoutMode |-> "VERTICAL", itemSpacing |-> IntNum(8)],
      [type |-> "FRAME", layoutMode |-> "VERTICAL", itemSpacing |-> IntNum(8),
       visible |-> FALSE, fills |-> <<SolidBlue>>],
      [type |-> "FRAME", fills |-> <<SolidRedOpaque>>, componentId |-> "c1"],
      [type |-> "FRAME", fills |-> <<HiddenSolidNoColor>>] }

LeafKinds ==
    { [type |-> "TEXT", visible |-> TRUE, characters |-> "hi",
       style |-> [fontSize |-> IntNum(16)], fills |-> <<SolidRed>>],
      [type |-> "TEXT", style |-> EmptyDict],
      [type |-> "TEXT", style |-> [fontSize |-> IntNum(16)],
       fills |-> <<HiddenSolidNoColor>>],
      [type |-> "RECTANGLE", fills |-> <<ImageA, SolidNoColor>>],
      [type |-> "RECTANGLE", fills |-> <<SolidNoColor>>],
      [type |-> "RECTANGLE", visible |-> FALSE, fills |-> <<SolidNoColor>>] }

\* the raw node of kind `kind` that is the n-th node of its tree
MkNode(kind, n) ==
    Put(Put(kind, "id", "1:" \o ToString(n)), "name", "node" \o ToString(n))

\* Forests(n, id): the lists of trees of n nodes in all, numbered from id in
\* document order; a tree of j nodes is a leaf (j = 1) or a container whose
\* children are a list of trees of j - 1 nodes in all
RECURSIVE Forests(_, _)
Forests(n, id) ==
    IF n = 0 THEN { <<>> }
    ELSE UNION {
        { <<t>> \o f :
            t \in (IF j = 1 THEN { MkNode(kind, id) : kind \in LeafKinds } ELSE {})
                  \cup { Put(MkNode(kind, id), "children", c) :
                            kind \in ContainerKinds, c \in Forests(j - 1, id + 1) },
            f \in Forests(n - j, id + j) } :
        j \in 1..n }

\* Trees(n, id): the trees of n nodes, numbered from id
Trees(n, id) == { f[1] : f \in { g \in Forests(n, id) : Len(g) = 1 } }

RawTrees == UNION { Trees(n, 1) : n \in 1..MaxNodes }

\* the two shapes of argument: a bare root node, or a dict holding it
\* under "document"
TreeInputs == RawTrees \cup { [document |-> t] : t \in RawTrees }

(* ------------------- inputs of one node: the fills ------------------- *)

FillKinds ==
    { SolidRed, SolidBlue, SolidOrangeClear, HiddenSolidRed, SolidNoColor,
      HiddenSolidNoColor, ImageA, HiddenImageB, ImageNoRef, Gradient }

\* the lists of at most n fills
RECURSIVE FillLists(_)
FillLists(n) ==
    IF n = 0 THEN { <<>> }
    ELSE { <<>> } \cup { <<f>> \o l : f \in FillKinds, l \in FillLists(n - 1) }

FillBases ==
    { [id |-> "1:1", name |-> "node1", type |-> "FRAME"],
      [id |-> "1:1", name |-> "node1", type |-> "RECTANGLE"],
      [id |-> "1:1", name |-> "node1", type |-> "TEXT", characters |-> "hi",
       style |-> [fontSize |-> IntNum(16), textAlignHorizontal |-> "RIGHT"]] }

\* a node without children, with no fills field or with a list of fills
FillNodes ==
    FillBases \cup { Put(n, "fills", l) : n \in FillBases, l \in FillLists(MaxFills) }

(* --------------- inputs of one node: the layout fields ---------------- *)

\* the dicts of D, and those with key k added, set to a value of Vals
Opt(D, k, Vals) == D \cup { Put(d, k, v) : d \in D, v \in Vals }

LayoutModes ==
    Opt({ [id |-> "1:1", name |-> "node1", type |-> "FRAME"] },
        "layoutMode", { "HORIZONTAL", "VERTICAL", "NONE" })

LayoutPaddings ==
    Opt(Opt(Opt(Opt(LayoutModes, "paddingLeft", { IntNum(8) }),
                "paddingRight", { IntNum(8) }),
            "paddingTop", { FloatNum(45) }),
        "paddingBottom", { IntNum(0) })

LayoutAlignments ==
    Opt(Opt(Opt(LayoutPaddings, "itemSpacing", { IntNum(8) }),
            "primaryAxisAlignItems", { "CENTER", "SPACE_BETWEEN" }),
        "counterAxisAlignItems", { "MAX" })

LayoutNodes ==
    Opt(Opt(Opt(LayoutAlignments, "absoluteBoundingBox",
                { [width |-> FloatNum(105), height |-> IntNum(3)] }),
            "cornerRadius", { IntNum(8), IntNum(0) }),
        "cornerSmoothing", { FloatNum(3), IntNum(0), FloatNum(-3) })

(* ------------------------ transform_figma_json ------------------------ *)

\* raw_data["document"] if "document" in raw_data, else raw_data
RootOf(data) == IF Has(data, "document") THEN data["document"] ELSE data

KeyError(key) == [error |-> "KeyError", key |-> key]

Top == stack[Len(stack)]

\* the children loop of the frame has run to its end, or there is none
LoopDone(frame) ==
    IF Has(frame.raw_node, "children")
    THEN frame.i > Len(frame.raw_node["children"])
    ELSE TRUE

\* what a call of transform_node on raw_node does up to its children loop
Enter(raw_node, frames) ==
    \E h \in { transform_node_head(raw_node, styles) } :
        /\ styles' = h.styles
        /\ registered' = registered \o h.built
        /\ IF h.raised
           THEN /\ pc' = "error"
                /\ stack' = <<>>
                /\ result' = KeyError(h.key)
           ELSE /\ pc' = "running"
                /\ stack' = Append(frames,
                                   [raw_node |-> raw_node, node |-> h.node, i |-> 1])
                /\ result' = result

\* transform_figma_json: styles = {}, and the call of transform_node on
\* the root
Start ==
    /\ pc = "start"
    /\ Enter(RootOf(raw_data), <<>>)
    /\ UNCHANGED raw_data

\* the children loop reaches a child that is not skipped: transform_node is
\* called on it
CallChild ==
    /\ pc = "running"
    /\ ~LoopDone(Top)
    /\ ~child_skipped(Top.raw_node["children"][Top.i])
    /\ Enter(Top.raw_node["children"][Top.i], stack)
    /\ UNCHANGED raw_data

\* the children loop reaches a child whose visible is False: continue
SkipChild ==
    /\ pc = "running"
    /\ ~LoopDone(Top)
    /\ child_skipped(Top.raw_node["children"][Top.i])
    /\ stack' = [stack EXCEPT ![Len(stack)].i = @ + 1]
    /\ UNCHANGED <<raw_data, pc, styles, result, registered>>

\* the node of the parent frame with the transformed child appended
AppendChild(parent, child) ==
    [parent EXCEPT !.node = Put(@, "children", Append(@["children"], child)),
                   !.i = @ + 1]

\* a call of transform_node returns: to the children loop of its caller,
\* or to transform_figma_json, which returns the document and the styles
Return ==
    /\ pc = "running"
    /\ LoopDone(Top)
    /\ \E node \in { transform_node_tail(Top.raw_node, Top.node) }, n \in { Len(stack) } :
           IF n = 1
           THEN /\ pc' = "done"
                /\ stack' = <<>>
                /\ result' = [document |-> node, styles |-> styles]
           ELSE /\ pc' = pc
                /\ stack' = Append(SubSeq(stack, 1, n - 2),
                                   AppendChild(stack[n - 1], node))
                /\ result' = result
    /\ UNCHANGED <<raw_data, styles, registered>>

Init ==
    /\ raw_data \in TreeInputs
    /\ pc = "start"
    /\ stack = <<>>
    /\ styles = EmptyDict
    /\ result = EmptyDict
    /\ registered = <<>>

Next == Start \/ CallChild \/ SkipChild \/ Return

Spec == Init /\ [][Next]_vars

\* transform_figma_json on one node without children: the fills
InitFill ==
    /\ raw_data \in FillNodes
    /\ pc = "start"
    /\ stack = <<>>
    /\ styles = EmptyDict
    /\ result = EmptyDict
    /\ registered = <<>>

\* transform_figma_json on one node without children: the layout fields
InitLayout ==
    /\ raw_data \in LayoutNodes
    /\ pc = "start"
    /\ stack = <<>>
    /\ styles = EmptyDict
    /\ result = EmptyDict
    /\ registered = <<>>

NextLeaf == Start \/ Return

SpecFill == InitFill /\ [][NextLeaf]_vars

SpecLayout == InitLayout /\ [][NextLeaf]_vars

(* ===================== the properties checked ========================= *)

StyleIdKeys == { "fillStyleId", "layoutStyleId", "textStyleId" }

\* a raw child the traversal does not skip: its visible is not false
IsShown(c) == IF Has(c, "visible") THEN c["visible"] # FALSE ELSE TRUE

RECURSIVE Nodes(_)
\* the nodes of a tree, raw or transformed: the root and all below it
Nodes(n) ==
    { n } \cup
    (IF Has(n, "children")
     THEN UNION { Nodes(n["children"][i]) : i \in 1..Len(n["children"]) }
     ELSE {})

RECURSIVE Reached(_)
\* the raw nodes of a tree that lie under no child whose visible is false
Reached(n) ==
    { n } \cup
    (IF Has(n, "children")
     THEN UNION { Reached(n["children"][i]) :
                  i \in { j \in 1..Len(n["children"]) : IsShown(n["children"][j]) } }
     ELSE {})

\* the id, name and type of each node of a list, in order
Idents(seq) ==
    [i \in 1..Len(seq) |-> <<seq[i]["id"], seq[i]["name"], seq[i]["type"]>>]

\* the style ids the nodes of a transformed tree hold
StyleRefs(doc) ==
    UNION { { o[k] : k \in StyleIdKeys \cap DOMAIN o } : o \in Nodes(doc) }

\* the style objects handed to the table so far
RegisteredStyles == { registered[i].style : i \in 1..Len(registered) }

C2_Pruning ==
    pc = "done" =>
        \A outs \in { Nodes(result["document"]) } :
        \A raws \in { Nodes(RootOf(raw_data)) } :
            /\ result["document"]["id"] = RootOf(raw_data)["id"]
            /\ \A r \in raws : \A o \in outs :
                  (o["id"] = r["id"]) =>
                      IF Has(r, "children")
                      THEN /\ Has(o, "children")
                           /\ Idents(o["children"])
                                = Idents(SelectSeq(r["children"], IsShown))
                      ELSE ~Has(o, "children")
            /\ \A r \in raws :
                  Has(r, "children") =>
                      \A i \in 1..Len(r["children"]) :
                          ~IsShown(r["children"][i]) =>
                              \A d \in Nodes(r["children"][i]) :
                                  \A o \in outs : o["id"] # d["id"]

\* a child with visible false holding a grandchild with visible true: the
\* returned root has an empty children list
C2_Witness ==
    /\ pc = "done"
    /\ \E r \in { RootOf(raw_data) } :
          /\ Has(r, "children")
          /\ Len(r["children"]) = 1
          /\ Get(r["children"][1], "visible", TRUE) = FALSE
          /\ Len(Get(r["children"][1], "children", <<>>)) = 1
          /\ Get(r["children"][1]["children"][1], "visible", FALSE) = TRUE
    /\ result["document"]["children"] = <<>>

\* a raw node from which the layout extractor builds nothing
NoLayoutFields(r) ==
    DOMAIN r \cap { "layoutMode", "absoluteBoundingBox", "cornerRadius",
                    "cornerSmoothing" } = {}

\* a raw node from which the text extractor builds nothing
NoTextFields(r) ==
    \/ r["type"] # "TEXT"
    \/ ~Has(r, "style")
    \/ (DOMAIN r["style"] = {} /\ Get(r, "fills", <<>>) = <<>>)

\* C3: a node of the returned document holds a style id key only for a
\* non-empty style object of the table; a raw node whose extractor builds no
\* key yields a node without that key; the table never holds an empty object.
C3_NoEmptyStyle ==
    /\ \A id \in DOMAIN styles : DOMAIN styles[id] # {}
    /\ pc = "done" =>
          \A outs \in { Nodes(result["document"]) } :
              /\ \A o \in outs : \A k \in StyleIdKeys \cap DOMAIN o :
                    /\ o[k] \in DOMAIN result["styles"]
                    /\ DOMAIN result["styles"][o[k]] # {}
              /\ \A r \in Reached(RootOf(raw_data)) : \A o \in outs :
                    (o["id"] = r["id"]) =>
                        /\ NoLayoutFields(r) => ~Has(o, "layoutStyleId")
                        /\ NoTextFields(r) => ~Has(o, "textStyleId")
                        /\ Get(r, "fills", <<>>) = <<>> => ~Has(o, "fillStyleId")

\* a TEXT node whose style sub-record is empty and which has no fills is
\* returned without any style id, and the table is empty
C3_Witness ==
    /\ pc = "done"
    /\ RootOf(raw_data)["type"] = "TEXT"
    /\ RootOf(raw_data)["style"] = EmptyDict
    /\ ~Has(RootOf(raw_data), "fills")
    /\ DOMAIN result["document"] = { "id", "name", "type", "visible" }
    /\ DOMAIN result["styles"] = {}

\* C10: the keys of the returned styles table are exactly the style ids the
\* nodes of the returned document hold, and every style object handed to the
\* table stays in it, under its id and unchanged, to the end of the call.
C10_ReferentialIntegrity ==
    /\ pc = "done" =>
          DOMAIN result["styles"] = StyleRefs(result["document"])
    /\ \A i \in 1..Len(registered) :
          /\ registered[i].id \in DOMAIN styles
          /\ styles[registered[i].id] = registered[i].style

\* a child with visible false whose fill would make a style of its own: the
\* style of the root is in the table, the one of the child is not
C10_Witness ==
    /\ pc = "done"
    /\ \E r \in { RootOf(raw_data) } :
          /\ Has(r, "children")
          /\ Len(r["children"]) = 2
          /\ Get(r["children"][1], "visible", TRUE) = FALSE
          /\ Get(r["children"][1], "fills", <<>>) = <<SolidBlue>>
          /\ Get(r, "fills", <<>>) = <<SolidRedOpaque>>
    /\ Cardinality(DOMAIN result["styles"]) = 2
    /\ \A id \in DOMAIN result["styles"] :
          Get(result["styles"][id], "backgroundColor", "") # "#0000ff"

\* a fill that declares SOLID and has no color
Malformed(fill) == fill["type"] = "SOLID" /\ ~Has(fill, "color")

\* the color of the first fill of raw node r is read: by the fill extractor
\* unless the fill has visible false, by the text extractor of a TEXT node
\* with a style sub-record in any case
FirstFillRead(r) ==
    /\ Get(r, "fills", <<>>) # <<>>
    /\ r["fills"][1]["type"] = "SOLID"
    /\ \/ Get(r["fills"][1], "visible", TRUE) # FALSE
       \/ (r["type"] = "TEXT" /\ Has(r, "style"))

\* C7 as stated: no call returns an output when a fill, at any place of the
\* list, of a node that is not pruned declares SOLID without a color.
C7_AnyMalformedFillIsError ==
    pc = "done" =>
        \A r \in Reached(RootOf(raw_data)) :
            \A i \in 1..Len(Get(r, "fills", <<>>)) : ~Malformed(r["fills"][i])

\* C7 amended: the call ends in KeyError('color') exactly when the first fill
\* of a node that is not pruned is a SOLID fill without color whose color
\* is read; then no output is returned.  Every fill style of the table has
\* backgroundColor and opacity, and in a returned document every TEXT node
\* with a style sub-record whose first fill is SOLID holds a text style with
\* color.
C7_ReadMalformedFillIsError ==
    /\ pc = "done" =>
          \A r \in Reached(RootOf(raw_data)) :
              ~(FirstFillRead(r) /\ Malformed(r["fills"][1]))
    /\ pc = "error" =>
          /\ result = [error |-> "KeyError", key |-> "color"]
          /\ \E r \in Reached(RootOf(raw_data)) :
                FirstFillRead(r) /\ Malformed(r["fills"][1])
    /\ \A id \in DOMAIN styles :
          Has(styles[id], "opacity") => Has(styles[id], "backgroundColor")
    /\ pc = "done" =>
          \A r \in Reached(RootOf(raw_data)) :
              \A o \in Nodes(result["document"]) :
                  /\ Has(o, "fillStyleId") =>
                        DOMAIN result["styles"][o["fillStyleId"]]
                            = { "backgroundColor", "opacity" }
                  /\ (/\ o["id"] = r["id"]
                      /\ r["type"] = "TEXT"
                      /\ FirstFillRead(r)) =>
                        /\ Has(o, "textStyleId")
                        /\ Has(result["styles"][o["textStyleId"]], "color")

\* a TEXT child whose first fill is a SOLID fill without color and with
\* visible false: the fill extractor passes it over, the text extractor
\* raises, after the style of the root was put in the table
C7_Witness ==
    /\ pc = "error"
    /\ result = [error |-> "KeyError", key |-> "color"]
    /\ Cardinality(DOMAIN styles) = 1
    /\ \E r \in Reached(RootOf(raw_data)) :
          /\ r["type"] = "TEXT"
          /\ r["id"] # RootOf(raw_data)["id"]
          /\ Get(r, "fills", <<>>) = <<HiddenSolidNoColor>>
    /\ \A r \in Reached(RootOf(raw_data)) :
          Get(r, "fills", <<>>) \in { <<>>, <<HiddenSolidNoColor>>, <<SolidRedOpaque>> }

\* the places of the list whose fill is an IMAGE with an imageRef
ImagePlaces(fills) ==
    { i \in 1..Len(fills) : fills[i]["type"] = "IMAGE" /\ Has(fills[i], "imageRef") }

Least(S) == CHOOSE i \in S : \A j \in S : i <= j

Greatest(S) == CHOOSE i \in S : \A j \in S : i >= j

\* C4 as stated: the node returned for a RECTANGLE holds the imageRef of the
\* first fill that is an IMAGE with an imageRef, and none if there is no such
\* fill.
C4_FirstImageRef ==
    (pc = "done" /\ RootOf(raw_data)["type"] = "RECTANGLE") =>
        \A places \in { ImagePlaces(Get(RootOf(raw_data), "fills", <<>>)) } :
            IF places = {} THEN ~Has(result["document"], "imageRef")
            ELSE /\ Has(result["document"], "imageRef")
                 /\ result["document"]["imageRef"]
                      = RootOf(raw_data)["fills"][Least(places)]["imageRef"]

\* C4 amended: the node returned for a RECTANGLE holds the imageRef of the
\* last fill of the list that is an IMAGE with an imageRef, whatever its place
\* and its visible field, and none if there is no such fill.
C4_LastImageRef ==
    (pc = "done" /\ RootOf(raw_data)["type"] = "RECTANGLE") =>
        \A places \in { ImagePlaces(Get(RootOf(raw_data), "fills", <<>>)) } :
            IF places = {} THEN ~Has(result["document"], "imageRef")
            ELSE /\ Has(result["document"], "imageRef")
                 /\ result["document"]["imageRef"]
                      = RootOf(raw_data)["fills"][Greatest(places)]["imageRef"]

\* two IMAGE fills with an imageRef, the second with visible false: the
\* imageRef returned is the one of the second
C4_Witness ==
    /\ pc = "done"
    /\ RootOf(raw_data)["type"] = "RECTANGLE"
    /\ Get(RootOf(raw_data), "fills", <<>>) = <<ImageA, HiddenImageB>>
    /\ result["document"]["imageRef"] = "imgB"

\* the backgroundColor of the colors of the inputs
HexOf(color) ==
    CASE color = Red -> "#ff0000"
      [] color = Orange -> "#ff7f00"
      [] color = Blue -> "#0000ff"

\* the first fill of the list makes a fill style
FirstFillStyled(fills) ==
    /\ fills # <<>>
    /\ Get(fills[1], "visible", TRUE) # FALSE
    /\ fills[1]["type"] = "SOLID"

\* C8: a returned node holds a fillStyleId exactly when its fills list is not
\* empty and the first fill is a SOLID fill whose visible is not false; the
\* style is then the hex of that fill's color with its opacity, 1 when it has
\* none.  The outcome of the call, the fillStyleId and the table are those of
\* the same node with the first fill alone.
C8_FirstFillOnly ==
    \A fills \in { Get(RootOf(raw_data), "fills", <<>>) } :
        /\ pc = "done" =>
              /\ Has(result["document"], "fillStyleId") <=> FirstFillStyled(fills)
              /\ FirstFillStyled(fills) =>
                    result["styles"][result["document"]["fillStyleId"]]
                        = [backgroundColor |-> HexOf(fills[1]["color"]),
                           opacity |-> IF Has(fills[1], "opacity")
                                       THEN fills[1]["opacity"]
                                       ELSE IntNum(1)]
        /\ (pc \in { "done", "error" } /\ fills # <<>>) =>
              \A alone \in { transform_node_head(
                                Put(RootOf(raw_data), "fills", <<fills[1]>>),
                                EmptyDict) } :
                  /\ alone.raised <=> (pc = "error")
                  /\ alone.styles = styles
                  /\ pc = "done" =>
                        Get(alone.node, "fillStyleId", None)
                            = Get(result["document"], "fillStyleId", None)

\* a SOLID fill with visible false followed by a SOLID fill that is shown:
\* no fill style, and an empty table
C8_Witness ==
    /\ pc = "done"
    /\ RootOf(raw_data)["type"] = "FRAME"
    /\ Get(RootOf(raw_data), "fills", <<>>) = <<HiddenSolidRed, SolidBlue>>
    /\ ~Has(result["document"], "fillStyleId")
    /\ DOMAIN result["styles"] = {}

\* the layout style of the returned node, empty when it has none
LayoutStyle ==
    IF Has(result["document"], "layoutStyleId")
    THEN result["styles"][result["document"]["layoutStyleId"]]
    ELSE EmptyDict

\* the raw node has a cornerSmoothing greater than zero
Smoothed(r) == IF Has(r, "cornerSmoothing") THEN r["cornerSmoothing"].v > 0 ELSE FALSE

\* C5: for a raw node with cornerRadius, borderRadius is the cornerSmoothing
\* value in px when cornerSmoothing is present and greater than zero, and the
\* cornerRadius value in px otherwise.
C5_CornerPrecedence ==
    (pc = "done" /\ Has(RootOf(raw_data), "cornerRadius")) =>
        /\ Has(LayoutStyle, "borderRadius")
        /\ LayoutStyle["borderRadius"] =
              IF Smoothed(RootOf(raw_data))
              THEN Px(RootOf(raw_data)["cornerSmoothing"])
              ELSE Px(RootOf(raw_data)["cornerRadius"])

\* cornerRadius 8 with cornerSmoothing 0.3
C5_Witness ==
    /\ pc = "done"
    /\ Get(RootOf(raw_data), "cornerRadius", IntNum(0)) = IntNum(8)
    /\ Get(RootOf(raw_data), "cornerSmoothing", IntNum(0)) = FloatNum(3)
    /\ LayoutStyle["borderRadius"] = "0.3px"

\* C6 as stated: a layout style has borderRadius only if the raw node has
\* cornerRadius.
C6_RadiusOnlyWithCornerRadius ==
    pc = "done" =>
        (Has(LayoutStyle, "borderRadius") => Has(RootOf(raw_data), "cornerRadius"))

\* C6 amended: a layout style has borderRadius exactly when the raw node has
\* cornerRadius or a cornerSmoothing greater than zero; with such a
\* cornerSmoothing and no cornerRadius, borderRadius is the cornerSmoothing
\* value in px, and the node holds a layoutStyleId.
C6_RadiusOrSmoothing ==
    pc = "done" =>
        /\ Has(LayoutStyle, "borderRadius")
              <=> (Has(RootOf(raw_data), "cornerRadius") \/ Smoothed(RootOf(raw_data)))
        /\ (Smoothed(RootOf(raw_data)) /\ ~Has(RootOf(raw_data), "cornerRadius")) =>
              /\ Has(result["document"], "layoutStyleId")
              /\ LayoutStyle["borderRadius"] = Px(RootOf(raw_data)["cornerSmoothing"])

\* cornerSmoothing 0.3 and no other layout field: a layout style holding
\* borderRadius alone
C6_Witness ==
    /\ pc = "done"
    /\ DOMAIN RootOf(raw_data) = { "id", "name", "type", "cornerSmoothing" }
    /\ RootOf(raw_data)["cornerSmoothing"] = FloatNum(3)
    /\ Has(result["document"], "layoutStyleId")
    /\ LayoutStyle = [borderRadius |-> "0.3px"]

GatedKeys ==
    { "paddingLeft", "paddingRight", "paddingTop", "paddingBottom", "gap",
      "justifyContent", "alignItems" }

\* C9: the padding, gap and alignment keys are in a layout style only if the
\* raw node has layoutMode, display and flexDirection only if layoutMode is
\* HORIZONTAL or VERTICAL; width and height are there exactly when the raw
\* node has absoluteBoundingBox, and borderRadius exactly when it has a corner
\* field that sets it, with or without layoutMode.
C9_LayoutGating ==
    pc = "done" =>
        \A r \in { RootOf(raw_data) } : \A style \in { LayoutStyle } :
            /\ (DOMAIN style \cap GatedKeys # {}) => Has(r, "layoutMode")
            /\ (DOMAIN style \cap { "display", "flexDirection" } # {}) =>
                  Get(r, "layoutMode", None) \in { "HORIZONTAL", "VERTICAL" }
            /\ ({ "width", "height" } \subseteq DOMAIN style)
                  <=> Has(r, "absoluteBoundingBox")
            /\ Has(style, "width") <=> Has(style, "height")
            /\ Has(r, "absoluteBoundingBox") =>
                  /\ style["width"] = Px(r["absoluteBoundingBox"]["width"])
                  /\ style["height"] = Px(r["absoluteBoundingBox"]["height"])
            /\ Has(style, "borderRadius")
                  <=> (Has(r, "cornerRadius") \/ Smoothed(r))

\* padding, itemSpacing and alignment fields without layoutMode, with a
\* bounding box: the layout style holds width and height alone
C9_Witness ==
    /\ pc = "done"
    /\ DOMAIN RootOf(raw_data) =
          { "id", "name", "type", "paddingLeft", "paddingTop", "itemSpacing",
            "primaryAxisAlignItems", "absoluteBoundingBox" }
    /\ LayoutStyle = [width |-> "10.5px", height |-> "3px"]

====
